---------------------------- MODULE Spec2Model ----------------------------
(***************************************************************************)
(* The autocomplete request lifecycle of codemirror-turbo                  *)
(* (src/src/autocomplete.ts): debounce -> begin session -> prompt ->       *)
(* currency check -> suggestion store, driven by editor transactions.      *)
(*                                                                         *)
(* autocomplete.ts holds two generations of the plugin.  Lines 1-284 are   *)
(* the insertion variant (line-local context, suggestion inserted at the   *)
(* cursor); lines 285-760 are the line-replacement variant (full-document  *)
(* context, suggestion replaces the cursor's line).  options.variant       *)
(* selects the generation; everything else is shared.                      *)
(*                                                                         *)
(* Text is a sequence of one-character strings.  Offsets are 0-based as in *)
(* CodeMirror: character i of a sequence occupies [i-1, i).                *)
(* Time is counted in milliseconds and kept relative to the present: a     *)
(* timer holds the time left until it is due, and a timestamp is kept as   *)
(* what the program asks of it, whether it equals the latest one.  The     *)
(* clock advances by Quantum, of which every delay of the model is a       *)
(* multiple.                                                               *)
(***************************************************************************)
EXTENDS Integers, Sequences, FiniteSets, TLC

\* ------------------------------------------------------------------ bounds
MaxDocLen == 2
MaxTriggers == 2
\* cursor placements in a session of cursor placements on one line
MaxMoves == 3
\* length of a raw response with fence markers or tags
MaxRawLen == 5

\* ------------------------------------------------------- program constants
DEFAULT_AUTOCOMPLETE_DEBOUNCE == 300
EnterDelay == 10
LineChangeDelay == 0
\* let remainingLines = 200
ContextWindow == 200
\* the step of the clock: the smallest positive delay of the program
Quantum == EnterDelay

\* --------------------------------------------------------------- alphabet
NL == "\n"
SP == " "
\* one token per fenced code-block marker (three backticks)
FENCE == "fence"
OPENTAG == "<code>"
CLOSETAG == "</code>"
DocChars == {"a", SP, NL}
Whitespace == {SP, NL}

\* suggestion: string | null.  null is a one-element sequence holding a
\* token that is no character, so that it compares with every text.
Null == <<"null">>

Min(S) == CHOOSE x \in S : \A y \in S : x <= y
Max(S) == CHOOSE x \in S : \A y \in S : x >= y

\* ------------------------------------------------------------ text helpers
\* String.prototype.trim
RECURSIVE TrimLeft(_)
TrimLeft(s) ==
  IF s # <<>> /\ Head(s) \in Whitespace THEN TrimLeft(Tail(s)) ELSE s

RECURSIVE TrimRight(_)
TrimRight(s) ==
  IF s # <<>> /\ s[Len(s)] \in Whitespace
  THEN TrimRight(SubSeq(s, 1, Len(s) - 1)) ELSE s

Trim(s) == TrimRight(TrimLeft(s))

Includes(s, c) == \E i \in 1..Len(s) : s[i] = c

\* doc.sliceString(from, to)
SliceString(doc, from, to) == SubSeq(doc, from + 1, to)

\* doc.lineAt(pos): the line around offset pos
LineAt(doc, pos) ==
  LET from == Max({i \in 1..pos : doc[i] = NL} \cup {0})
      to == Min({i - 1 : i \in {j \in (pos + 1)..Len(doc) : doc[j] = NL}}
                \cup {Len(doc)})
  IN [number |-> 1 + Cardinality({i \in 1..pos : doc[i] = NL}),
      from |-> from, to |-> to, text |-> SubSeq(doc, from + 1, to)]

\* doc.lines
DocLines(doc) == 1 + Cardinality({i \in 1..Len(doc) : doc[i] = NL})

\* doc.line(n): the n-th line, 1-based
DocLine(doc, n) ==
  LET starts == {0} \cup {i \in 1..Len(doc) : doc[i] = NL}
      from == CHOOSE f \in starts :
                Cardinality({g \in starts : g < f}) = n - 1
  IN LineAt(doc, from)

\* ------------------------------------------------------ response normalizer
\* .replace(/^```[\s\S]*?\n/, ''): a leading fence marker and everything up
\* to and including the first line break after it
StripOpenFence(s) ==
  IF s # <<>> /\ s[1] = FENCE /\ \E i \in 2..Len(s) : s[i] = NL
  THEN SubSeq(s, Min({i \in 2..Len(s) : s[i] = NL}) + 1, Len(s))
  ELSE s

\* .replace(/\n```$/, ''): a line break plus fence marker at the very end
StripCloseFence(s) ==
  IF Len(s) >= 2 /\ s[Len(s)] = FENCE /\ s[Len(s) - 1] = NL
  THEN SubSeq(s, 1, Len(s) - 2)
  ELSE s

\* .replace(/[\s\S]*?<code>([\s\S]*?)<\/code>[\s\S]*/g, '$1').trim(), applied
\* when the text includes both tags: the content between the first opening
\* tag and the first closing tag after it; no match leaves the text as is
ExtractCode(s) ==
  IF Includes(s, OPENTAG) /\ Includes(s, CLOSETAG)
  THEN LET o == Min({i \in 1..Len(s) : s[i] = OPENTAG})
           cs == {i \in (o + 1)..Len(s) : s[i] = CLOSETAG}
       IN Trim(IF cs = {} THEN s ELSE SubSeq(s, o + 1, Min(cs) - 1))
  ELSE s

\* currentFullLine.match(/^(\s*)/)?.[1] || ''
LeadingWhitespace(s) == SubSeq(s, 1, Len(s) - Len(TrimLeft(s)))

\* .split('\n').map((line, idx) => idx === 0 ? line : indent + line).join('\n')
RECURSIVE IndentAfterBreaks(_, _)
IndentAfterBreaks(s, indent) ==
  IF s = <<>> THEN <<>>
  ELSE IF Head(s) = NL
       THEN <<NL>> \o indent \o IndentAfterBreaks(Tail(s), indent)
       ELSE <<Head(s)>> \o IndentAfterBreaks(Tail(s), indent)

\* a re-indentation that prefixes the first line as well
ReindentEveryLine(s, currentFullLine) ==
  IF Includes(s, NL)
  THEN LeadingWhitespace(currentFullLine)
       \o IndentAfterBreaks(s, LeadingWhitespace(currentFullLine))
  ELSE s

Reindent(s, currentFullLine) ==
  IF Includes(s, NL)
  THEN IndentAfterBreaks(s, LeadingWhitespace(currentFullLine))
  ELSE s

\* the clean-up of a raw response; the insertion variant stops after the
\* fences and the trim
Normalize(variant, raw, currentFullLine) ==
  LET fenced == Trim(StripCloseFence(StripOpenFence(raw)))
  IN IF variant = "insertion" THEN fenced
     ELSE Reindent(ExtractCode(fenced), currentFullLine)

\* ------------------------------------------------- editor state, transactions
\* An EditorState: the document, the main selection head and the value of
\* AutocompleteSuggestionState.  origin (the session whose response the
\* field holds, 0 if none; negated if that session was not the latest one, or
\* its signal was aborted, when the response was stored) and ver (the number
\* of document changes so far) are history fields that no code reads.
EditorStateOf(doc, head, suggestion, origin, ver) ==
  [doc |-> doc, head |-> head, suggestion |-> suggestion,
   origin |-> origin, ver |-> ver]

\* AutocompleteSuggestionEffect.of(v) as a one-element effects list
SuggestionEffect(v, origin) == <<[value |-> v, origin |-> origin]>>

\* a TransactionSpec: changes {from, to, insert}, selection (-1: none given),
\* effects
TrSpec(from, to, insert, selection, effects) ==
  [from |-> from, to |-> to, insert |-> insert, selection |-> selection,
   effects |-> effects]

EffectOnly(effects) == TrSpec(0, 0, <<>>, -1, effects)

\* tr.docChanged
DocChanged(tr) == tr.to > tr.from \/ tr.insert # <<>>

\* tr.selection given explicitly (ViewUpdate.selectionSet)
SelectionSet(tr) == tr.selection >= 0

\* ChangeSet.mapPos(pos, -1) for a single replaced range
MapPos(pos, tr) ==
  IF pos < tr.from THEN pos
  ELSE IF tr.from = tr.to THEN (IF pos = tr.from THEN pos
                                ELSE pos + Len(tr.insert))
  ELSE IF pos < tr.to THEN tr.from
  ELSE pos - (tr.to - tr.from) + Len(tr.insert)

\* a field that keeps its value through document changes
AutocompleteSuggestionStateKeptOnEdit(value, tr) ==
  IF tr.effects # <<>>
  THEN [suggestion |-> tr.effects[1].value, origin |-> tr.effects[1].origin]
  ELSE value

\* AutocompleteSuggestionState.update(value, tr)
AutocompleteSuggestionState(value, tr) ==
  IF ~DocChanged(tr) /\ tr.effects = <<>> THEN value
  ELSE IF tr.effects # <<>>
       THEN [suggestion |-> tr.effects[1].value, origin |-> tr.effects[1].origin]
       ELSE [suggestion |-> Null, origin |-> 0]

\* state.update(tr).state
ApplyTransaction(st, tr) ==
  LET field == AutocompleteSuggestionState(
                 [suggestion |-> st.suggestion, origin |-> st.origin], tr)
  IN EditorStateOf(
       SubSeq(st.doc, 1, tr.from) \o tr.insert
         \o SubSeq(st.doc, tr.to + 1, Len(st.doc)),
       IF SelectionSet(tr) THEN tr.selection ELSE MapPos(st.head, tr),
       field.suggestion, field.origin,
       IF DocChanged(tr) THEN st.ver + 1 ELSE st.ver)


\* --------------------------------------------------------------- the state
VARIABLES
  options,          \* the AutocompleteOptions the extension was built with
  state,            \* view.state
  timers,           \* pending setTimeout callbacks, in creation order
  abortController,  \* the session whose controller is held, 0 for null
  currentRequestId, \* the request counter of createAutocompletePlugin
  lastRequestAge,   \* this.lastRequestTimestamp: 0 if set at the present
                    \* time, 1 if earlier
  aborted,          \* the sessions whose controller's signal is aborted
  sessions,         \* number of runs of the debounced operation so far
  inflight,         \* the runs awaiting prompt(): their closures
  notified,         \* the callbacks (onError, onAcceptSuggestion,
                    \* onRejectSuggestion) made by the last step
  lastTrigger,      \* history: the last call of debouncedFetch: its number,
                    \* its state argument while the timer is pending, the
                    \* runs of the operation since, the time the run waited
  lastFetch,        \* history: the last run of the debounced operation
  lastDone,         \* history: the request the last step settled
  lastCleared,      \* history: the suggestion the last step took out of the
                    \* store, Null if it took none out
  lastEvent         \* history: the last user event: "Enter", an accept or
                    \* reject key with what its command returned (true:
                    \* "accepted", "rejected"; false: "acceptIgnored",
                    \* "rejectIgnored", or "ignoredAgain" when the key
                    \* came right after an accept or a reject), or "other"

vars == <<options, state, timers, abortController, currentRequestId,
          lastRequestAge, aborted, sessions, inflight, notified, lastTrigger,
          lastFetch, lastDone, lastCleared, lastEvent>>

Variants == {"insertion", "replacement"}
\* values of options.autocompleteDebounceTime: none, and longer than EnterDelay
DebounceChoices == {0, 2 * Quantum}

\* the documents an editor is created with
InitDocs == {<<>>, <<"a">>, <<SP, "a">>, <<"a", NL>>}

\* raw responses of prompt(): one line, another line, a blank
RawResponses == {<<"a">>, <<"a", "a">>, <<SP>>, <<"a", NL, "a">>}
\* the texts of at most n characters of the set S
TextsUpTo(S, n) == UNION {[1..k -> S] : k \in 0..n}
\* raw responses of prompt() that hold fence markers, and that hold tags
FencedResponses == TextsUpTo({FENCE, NL, SP, "a"}, MaxRawLen)
TaggedResponses == TextsUpTo({OPENTAG, CLOSETAG, SP, "a"}, MaxRawLen)
\* rejection values of prompt(): a cancellation error, another Error, a
\* value that is no Error
Rejections == {"AbortError", "Error", "NonError"}

\* a debounce that ignores the configured delay
DebounceDelayNone(opts) == 0

\* options.autocompleteDebounceTime ?? DEFAULT_AUTOCOMPLETE_DEBOUNCE
DebounceDelay(opts) ==
  IF opts.autocompleteDebounceTime = -1 THEN DEFAULT_AUTOCOMPLETE_DEBOUNCE
  ELSE opts.autocompleteDebounceTime

\* the enableAutocomplete option is not consulted
EnabledAlways(opts) == TRUE

\* options.enableAutocomplete !== false
Enabled(opts) == opts.enableAutocomplete

NoState == EditorStateOf(<<>>, 0, Null, 0, 0)
NoTrigger == [count |-> 0, state |-> NoState, runs |-> 0, waited |-> 0]
NoFetch == [called |-> FALSE, snapVer |-> 0, requestId |-> 0, line |-> 0]
NoneDone == [sid |-> 0, status |-> "none", wrote |-> FALSE, stale |-> FALSE,
             error |-> "none", text |-> Null, raw |-> Null]

\* ----------------------------------------------------------------- timers
\* a setTimeout callback: left is the time until it is due; waited (the
\* time since it was set), trig (the number of the debouncedFetch call that
\* set it) and source (the caller of debouncedFetch) are history
Timer(kind, delay, st, trig, source) ==
  [kind |-> kind, left |-> delay, waited |-> 0, state |-> st, trig |-> trig,
   source |-> source]

NotDebounce(t) == t.kind # "debounce"

\* a debounce that leaves the timer of the superseded call running
DebouncedFetchNoCancel(w, st, source) ==
  [timers |-> Append(w.timers,
                     Timer("debounce", DebounceDelay(options), st,
                           w.lastTrigger.count + 1, source)),
   lastTrigger |-> [count |-> w.lastTrigger.count + 1, state |-> st,
                    runs |-> 0, waited |-> 0]]

\* a debounce that drops the calls made while a request is in flight
DebouncedFetchWhenIdle(w, st, source) ==
  IF inflight # {}
  THEN [timers |-> w.timers, lastTrigger |-> w.lastTrigger]
  ELSE [timers |-> Append(SelectSeq(w.timers, NotDebounce),
                          Timer("debounce", DebounceDelay(options), st,
                                w.lastTrigger.count + 1, source)),
        lastTrigger |-> [count |-> w.lastTrigger.count + 1, state |-> st,
                         runs |-> 0, waited |-> 0]]

\* debouncePromise(operation, delayMs)(st, view): every call restarts the
\* timer; only the last call of a quiet period runs the operation, never
\* synchronously.  w carries the timers and the trigger history.
DebouncedFetch(w, st, source) ==
  [timers |-> Append(SelectSeq(w.timers, NotDebounce),
                     Timer("debounce", DebounceDelay(options), st,
                           w.lastTrigger.count + 1, source)),
   lastTrigger |-> [count |-> w.lastTrigger.count + 1, state |-> st,
                    runs |-> 0, waited |-> 0]]

\* the plugin's update(update), for the transaction tr from startState
Update(w, startState, newState, tr) ==
  IF DocChanged(tr) \/ SelectionSet(tr)
  THEN LET oldLine == LineAt(startState.doc, startState.head)
           newLine == LineAt(newState.doc, newState.head)
       IN IF oldLine.number # newLine.number
          THEN [timers |-> Append(w.timers,
                  Timer("lineChange", LineChangeDelay, newState, 0, "update")),
                lastTrigger |-> w.lastTrigger]
          ELSE IF Enabled(options)
               THEN DebouncedFetch(w, newState, "update")
               ELSE [timers |-> w.timers, lastTrigger |-> w.lastTrigger]
  ELSE [timers |-> w.timers, lastTrigger |-> w.lastTrigger]

\* view.dispatch(tr): the new state, then the plugin's update
Dispatch(w, tr) ==
  LET ns == ApplyTransaction(w.state, tr)
      u == Update(w, w.state, ns, tr)
  IN [state |-> ns, timers |-> u.timers, lastTrigger |-> u.lastTrigger]

World == [state |-> state, timers |-> timers, lastTrigger |-> lastTrigger]

ClearEffect == EffectOnly(SuggestionEffect(Null, 0))

\* the first timer that is due; timers of equal deadline run in creation order
Due == {i \in 1..Len(timers) : timers[i].left = 0}
FirstDue == Min(Due)
WithoutTimer(i) == SubSeq(timers, 1, i - 1) \o SubSeq(timers, i + 1, Len(timers))

\* ------------------------------------------------------------ initial state
Init ==
  /\ options \in [variant : Variants, enableAutocomplete : BOOLEAN,
                  autocompleteDebounceTime : DebounceChoices]
  /\ \E doc \in InitDocs : \E head \in 0..Len(doc) :
       state = EditorStateOf(doc, head, Null, 0, 0)
  /\ timers = <<>>
  /\ abortController = 0
  /\ currentRequestId = 0
  /\ lastRequestAge = 1
  /\ aborted = {}
  /\ sessions = 0
  /\ inflight = {}
  /\ notified = <<>>
  /\ lastTrigger = NoTrigger
  /\ lastFetch = NoFetch
  /\ lastDone = NoneDone
  /\ lastCleared = Null
  /\ lastEvent = "other"

Session == <<abortController, currentRequestId, lastRequestAge, aborted,
             sessions, inflight, lastFetch>>

\* a step that settles no request and makes no callback
Quiet ==
  /\ notified' = <<>>
  /\ lastDone' = NoneDone

\* history: the suggestion that the step from old to new took out of the store
Cleared(old, new) ==
  IF old.suggestion \notin {Null, <<>>} /\ new.suggestion # old.suggestion
  THEN old.suggestion ELSE Null

\* the view after the dispatches of a step
SetWorld(w) ==
  /\ state' = w.state
  /\ timers' = w.timers
  /\ lastTrigger' = w.lastTrigger
  /\ lastCleared' = Cleared(state, w.state)

\* a step that dispatches nothing to the view
SameWorld ==
  /\ UNCHANGED <<state, timers, lastTrigger>>
  /\ lastCleared' = Null

LineChangeTimers == {i \in 1..Len(timers) : timers[i].kind = "lineChange"}

\* a user event that may lead to a call of debouncedFetch, in an environment
\* that produces at most n of them
UserEventWithin(kind, n) ==
  /\ lastTrigger.count + Cardinality(LineChangeTimers) < n
  /\ lastEvent' = kind

UserEvent(kind) == UserEventWithin(kind, MaxTriggers)

\* ------------------------------------------------------------- user events
\* the user types a character at the cursor (host input handling)
TypeChar ==
  \E c \in {"a", SP} :
    /\ Len(state.doc) < MaxDocLen
    /\ UserEvent("other")
    /\ SetWorld(Dispatch(World,
         TrSpec(state.head, state.head, <<c>>, state.head + 1, <<>>)))
    /\ Quiet
    /\ UNCHANGED <<options, Session>>

\* the user places the cursor with the pointer: a selection-only transaction
MoveCursorWithin(n) ==
  \E p \in 0..Len(state.doc) :
    /\ UserEventWithin("other", n)
    /\ SetWorld(Dispatch(World, TrSpec(0, 0, <<>>, p, <<>>)))
    /\ Quiet
    /\ UNCHANGED <<options, Session>>

MoveCursor == MoveCursorWithin(MaxTriggers)

\* where the host's default binding of an arrow key puts the cursor
ArrowTarget(st, key) ==
  LET line == LineAt(st.doc, st.head)
      col == st.head - line.from
  IN CASE key = "ArrowLeft" -> IF st.head > 0 THEN st.head - 1 ELSE st.head
       [] key = "ArrowRight" ->
            IF st.head < Len(st.doc) THEN st.head + 1 ELSE st.head
       [] key = "ArrowUp" ->
            IF line.number > 1
            THEN LET up == DocLine(st.doc, line.number - 1)
                 IN up.from + Min({col, up.to - up.from})
            ELSE st.head
       [] key = "ArrowDown" ->
            IF line.number < DocLines(st.doc)
            THEN LET down == DocLine(st.doc, line.number + 1)
                 IN down.from + Min({col, down.to - down.from})
            ELSE st.head

ArrowKeys == {"ArrowUp", "ArrowDown", "ArrowLeft", "ArrowRight"}

\* a keydown handler that leaves the suggestion alone on Enter
KeydownArrowsOnly(w, key) ==
  IF key \in ArrowKeys THEN Dispatch(w, ClearEffect) ELSE w

\* the plugin's keydown handler: an arrow key or Enter clears the suggestion;
\* on Enter the replacement variant also defers a look at the new line by
\* EnterDelay
Keydown(w, key) ==
  IF key \in ArrowKeys THEN Dispatch(w, ClearEffect)
  ELSE IF key = "Enter"
  THEN LET w1 == Dispatch(w, ClearEffect)
       IN IF options.variant = "replacement"
          THEN [w1 EXCEPT !.timers =
                  Append(@, Timer("enter", EnterDelay, NoState, 0, "keydown"))]
          ELSE w1
  ELSE w

\* keydown of an arrow key: the plugin's handler clears the suggestion, then
\* the host moves the cursor
ArrowKey ==
  \E key \in ArrowKeys :
    LET w1 == Keydown(World, key)
        target == ArrowTarget(w1.state, key)
    IN /\ UserEvent("other")
       /\ SetWorld(IF target # w1.state.head
                   THEN Dispatch(w1, TrSpec(0, 0, <<>>, target, <<>>))
                   ELSE w1)
       /\ Quiet
       /\ UNCHANGED <<options, Session>>

\* keydown of Enter: the plugin's handler clears the suggestion (and, in the
\* replacement variant, defers a look at the new line by EnterDelay), then
\* the host inserts the line break and moves the cursor behind it
EnterKey ==
  LET w2 == Keydown(World, "Enter")
  IN /\ Len(state.doc) < MaxDocLen
     /\ UserEvent("Enter")
     /\ SetWorld(Dispatch(w2,
          TrSpec(state.head, state.head, <<NL>>, state.head + 1, <<>>)))
     /\ Quiet
     /\ UNCHANGED <<options, Session>>

EnterTimers == {i \in 1..Len(timers) : timers[i].kind = "enter"}

\* keydown of an arrow key or Enter whose default action does not take place
\* (prevented by another handler, or without effect): the plugin's handler
\* alone.  One deferred Enter callback at a time.
KeydownOnly ==
  \E key \in ArrowKeys \cup {"Enter"} :
    /\ key = "Enter" => EnterTimers = {}
    /\ lastEvent' = IF key = "Enter" THEN "EnterOnly" ELSE "ArrowOnly"
    /\ SetWorld(Keydown(World, key))
    /\ Quiet
    /\ UNCHANGED <<options, Session>>

\* a test for null that lets the empty string through
NoSuggestionNullOnly(st) == st.suggestion = Null

\* !state.suggestion
NoSuggestion(st) == st.suggestion = Null \/ st.suggestion = <<>>

\* an accept that inserts at the cursor in both variants
AcceptTransactionAtCursor(st) ==
  TrSpec(st.head, st.head, st.suggestion, -1, SuggestionEffect(Null, 0))

\* an accept that replaces the cursor's line in both variants
AcceptTransactionWholeLine(st) ==
  LET line == LineAt(st.doc, st.head)
  IN TrSpec(line.from, line.to, st.suggestion, -1, SuggestionEffect(Null, 0))

\* an accept that clears the store and leaves the document to a later step
AcceptTransactionClearOnly(st) == EffectOnly(SuggestionEffect(Null, 0))

\* acceptSuggestion(view): the transaction it dispatches
AcceptTransaction(st) ==
  LET line == LineAt(st.doc, st.head)
  IN IF options.variant = "replacement"
     THEN TrSpec(line.from, line.to, st.suggestion, -1, SuggestionEffect(Null, 0))
     ELSE TrSpec(st.head, st.head, st.suggestion, -1, SuggestionEffect(Null, 0))

\* a reject that drops the suggestion by emptying the cursor's line
RejectTransactionClearsLine(st) ==
  LET line == LineAt(st.doc, st.head)
  IN TrSpec(line.from, line.to, <<>>, line.from, SuggestionEffect(Null, 0))

\* rejectSuggestion(view): the transaction it dispatches
RejectTransaction(st) == EffectOnly(SuggestionEffect(Null, 0))

\* a binding that reads the store for the callback after the dispatch
AcceptCallbacksPostClear(suggestion) == <<<<"onAcceptSuggestion", Null>>>>

\* the callbacks of the accept binding once acceptSuggestion returned true
AcceptCallbacks(suggestion) == <<<<"onAcceptSuggestion", suggestion>>>>

\* a reject that is reported by the binding and once more by the command
RejectCallbacksTwice(suggestion) ==
  <<<<"onRejectSuggestion", suggestion>>, <<"onRejectSuggestion", suggestion>>>>

\* the callbacks of the reject binding once rejectSuggestion returned true
RejectCallbacks(suggestion) == <<<<"onRejectSuggestion", suggestion>>>>

\* history: how a key that returned false is recorded
Ignored(key) ==
  IF lastEvent \in {"accepted", "rejected"} THEN "ignoredAgain" ELSE key

\* the accept key binding (Tab)
AcceptKeyWithin(n) ==
  /\ IF NoSuggestion(state)
     THEN /\ lastEvent' = Ignored("acceptIgnored")
          /\ notified' = <<>>
          /\ SameWorld
     ELSE /\ UserEventWithin("accepted", n)
          /\ SetWorld(Dispatch(World, AcceptTransaction(state)))
          /\ notified' = AcceptCallbacks(state.suggestion)
  /\ lastDone' = NoneDone
  /\ UNCHANGED <<options, Session>>

AcceptKey == AcceptKeyWithin(MaxTriggers)

\* the reject key binding (Escape)
RejectKey ==
  /\ IF NoSuggestion(state)
     THEN /\ lastEvent' = Ignored("rejectIgnored")
          /\ notified' = <<>>
          /\ SameWorld
     ELSE /\ lastEvent' = "rejected"
          /\ SetWorld(Dispatch(World, RejectTransaction(state)))
          /\ notified' = RejectCallbacks(state.suggestion)
  /\ lastDone' = NoneDone
  /\ UNCHANGED <<options, Session>>

\* ------------------------------------------------------- context extraction
\* state.doc.sliceString(line.from, pos)
Prefix(st) == SliceString(st.doc, LineAt(st.doc, st.head).from, st.head)

\* the while loop over the lines before the current one: contextLines after
\* it, starting from line currentLine with remainingLines still to take
RECURSIVE ContextLinesFrom(_, _, _)
ContextLinesFrom(doc, currentLine, remainingLines) ==
  IF currentLine > 1 /\ remainingLines > 0
  THEN Append(ContextLinesFrom(doc, currentLine - 1, remainingLines - 1),
              DocLine(doc, currentLine - 1).text)
  ELSE <<>>

\* lines.join('\n')
RECURSIVE Join(_)
Join(lines) ==
  IF lines = <<>> THEN <<>>
  ELSE IF Len(lines) = 1 THEN lines[1]
  ELSE lines[1] \o <<NL>> \o Join(Tail(lines))

\* codeBefore of the insertion variant: beforeContext + '\n' + prefix
CodeBefore(st) ==
  Join(ContextLinesFrom(st.doc, LineAt(st.doc, st.head).number, ContextWindow))
  \o <<NL>> \o Prefix(st)

\* codeAfter of the insertion variant: suffix
CodeAfter(st) == SliceString(st.doc, st.head, LineAt(st.doc, st.head).to)

\* state.doc.sliceString(line.from, line.to)
CurrentFullLine(st) == LineAt(st.doc, st.head).text

\* a guard that forgets to trim: !prefix, !currentFullLine
EmptyContextUntrimmed(st) ==
  IF options.variant = "insertion" THEN Prefix(st) = <<>>
  ELSE CurrentFullLine(st) = <<>>

\* the empty-context guard: !prefix.trim() in the insertion variant,
\* !currentFullLine.trim() in the replacement variant
EmptyContext(st) ==
  IF options.variant = "insertion" THEN Trim(Prefix(st)) = <<>>
  ELSE Trim(CurrentFullLine(st)) = <<>>

\* --------------------------------------------------------- timer callbacks
\* requestTimestamp === this.lastRequestTimestamp of the requests in flight,
\* once a session has set this.lastRequestTimestamp = Date.now()
Restamped(fs) ==
  {[f EXCEPT !.timestampIsLast = @ /\ lastRequestAge = 0] : f \in fs}

\* abortController = new AbortController(): the controller of session sid,
\* whose signal is the one passed to prompt()
NewController(sid) == sid

\* the debounce timer fires: the debounced operation up to its await
FireDebounce ==
  /\ Due # {}
  /\ timers[FirstDue].kind = "debounce"
  /\ LET t == timers[FirstDue]
         st == t.state
         sid == sessions + 1
         skip == EmptyContext(st)
         stamped == options.variant = "replacement"
         w == [state |-> state, timers |-> WithoutTimer(FirstDue),
               lastTrigger |-> [lastTrigger EXCEPT !.state = NoState,
                                  !.runs = @ + 1, !.waited = t.waited]]
     IN /\ aborted' = IF abortController # 0
                      THEN aborted \cup {abortController} ELSE aborted
        /\ abortController' = NewController(sid)
        /\ currentRequestId' = currentRequestId + 1
        /\ lastRequestAge' = IF stamped THEN 0 ELSE lastRequestAge
        /\ sessions' = sid
        /\ inflight' = (IF stamped THEN Restamped(inflight) ELSE inflight)
             \cup (IF skip THEN {}
                   ELSE {[sid |-> sid, requestId |-> currentRequestId + 1,
                          timestampIsLast |-> stamped, state |-> st,
                          signal |-> NewController(sid)]})
        /\ lastFetch' = [called |-> ~skip, snapVer |-> st.ver,
                         requestId |-> currentRequestId + 1,
                         line |-> LineAt(st.doc, st.head).number]
        /\ SetWorld(IF skip THEN Dispatch(w, ClearEffect) ELSE w)
  /\ Quiet
  /\ UNCHANGED <<options, lastEvent>>

\* the setTimeout(0) callback of update()'s line-change branch
FireLineChange ==
  /\ Due # {}
  /\ timers[FirstDue].kind = "lineChange"
  /\ LET st == timers[FirstDue].state
         newLine == LineAt(st.doc, st.head)
         w1 == Dispatch([state |-> state, timers |-> WithoutTimer(FirstDue),
                         lastTrigger |-> lastTrigger], ClearEffect)
         isEmptyNewLine == Trim(newLine.text) = <<>>
         isPrevLineNotEmpty ==
           /\ newLine.number > 1
           /\ Trim(DocLine(st.doc, newLine.number - 1).text) # <<>>
     IN SetWorld(IF /\ options.variant = "replacement"
                    /\ isEmptyNewLine /\ isPrevLineNotEmpty /\ Enabled(options)
                 THEN [state |-> w1.state] @@ DebouncedFetch(w1, st, "lineChange")
                 ELSE w1)
  /\ Quiet
  /\ UNCHANGED <<options, Session, lastEvent>>

\* the setTimeout(10) callback of the Enter keydown handler: at most an empty
\* transaction, view.dispatch({})
FireEnter ==
  /\ Due # {}
  /\ timers[FirstDue].kind = "enter"
  /\ LET line == LineAt(state.doc, state.head)
         w == [state |-> state, timers |-> WithoutTimer(FirstDue),
               lastTrigger |-> lastTrigger]
     IN SetWorld(IF /\ line.number > 1
                    /\ Trim(DocLine(state.doc, line.number - 1).text) # <<>>
                    /\ Trim(line.text) = <<>>
                    /\ Enabled(options)
                 THEN Dispatch(w, EffectOnly(<<>>))
                 ELSE w)
  /\ Quiet
  /\ UNCHANGED <<options, Session, lastEvent>>

\* ------------------------------------------------------ prompt completions
\* a currency check that looks at the shared controller's signal only
IsCurrentSignalOnly(f) == abortController \notin aborted

\* a currency check that also lets the session before the latest one through
IsCurrentOffByOne(f) ==
  /\ abortController \notin aborted
  /\ f.requestId >= currentRequestId - 1

\* !abortController.signal.aborted && requestId === currentRequestId, and in
\* the replacement variant requestTimestamp === this.lastRequestTimestamp
IsCurrent(f) ==
  /\ abortController \notin aborted
  /\ f.requestId = currentRequestId
  /\ options.variant = "replacement" => f.timestampIsLast

\* the request of the run f is settled and its closure released.  wrote (the
\* response was stored), stale (a later session had begun), error (the value
\* prompt() rejected with), raw (the value it resolved with) and text (the
\* normalized response) are history
Done(f, status, wrote, error, raw, text) ==
  /\ inflight' = inflight \ {f}
  /\ lastDone' = [sid |-> f.sid, status |-> status, wrote |-> wrote,
                  stale |-> f.sid < sessions, error |-> error, text |-> text,
                  raw |-> raw]

\* prompt() of the run f resolves with raw, one of raws: the rest of the
\* operation
ResolvePromptWith(raws) ==
  \E f \in inflight : \E raw \in raws :
    LET cleanedSuggestion ==
          Normalize(options.variant, raw, CurrentFullLine(f.state))
        writes == /\ abortController # 0
                  /\ IsCurrent(f)
                  /\ cleanedSuggestion # f.state.suggestion
        origin == IF f.sid = sessions /\ f.sid \notin aborted
                  THEN f.sid ELSE 0 - f.sid
    IN /\ Done(f, "resolved", writes, "none", raw, cleanedSuggestion)
       /\ notified' = IF abortController = 0
                      THEN \* reading .signal of null throws into the catch
                           <<<<"onError", "TypeError">>>>
                      ELSE <<>>
       /\ IF writes
          THEN SetWorld(Dispatch(World,
                 EffectOnly(SuggestionEffect(cleanedSuggestion, origin))))
          ELSE SameWorld
       /\ UNCHANGED <<options, abortController, currentRequestId,
                      lastRequestAge, aborted, sessions, lastFetch, lastEvent>>

ResolvePrompt == ResolvePromptWith(RawResponses)

\* a catch block that reports every Error, AbortError included
CatchCallbacksNoAbortTest(error) ==
  IF error \in {"Error", "AbortError"} THEN <<<<"onError", error>>>> ELSE <<>>

\* the callbacks of the catch block: error instanceof Error &&
\* error.name !== "AbortError"
CatchCallbacks(error) ==
  IF error = "Error" THEN <<<<"onError", error>>>> ELSE <<>>

\* a catch block that clears the store
CatchEffectsClear(error) == SuggestionEffect(Null, 0)

\* the effects the catch block dispatches to the view: none
CatchEffects(error) == <<>>

\* prompt() of the run f rejects: the catch block
RejectPrompt ==
  \E f \in inflight : \E error \in Rejections :
    /\ Done(f, "rejected", FALSE, error, Null, Null)
    /\ notified' = CatchCallbacks(error)
    /\ IF CatchEffects(error) = <<>>
       THEN SameWorld
       ELSE SetWorld(Dispatch(World, EffectOnly(CatchEffects(error))))
    /\ UNCHANGED <<options, abortController, currentRequestId,
                   lastRequestAge, aborted, sessions, lastFetch, lastEvent>>

\* --------------------------------------------------------------------- time
\* Quantum milliseconds pass; a timer that is due runs first
Tick ==
  /\ Due = {}
  /\ timers' = [i \in 1..Len(timers) |->
       [timers[i] EXCEPT !.left = @ - Quantum, !.waited = @ + Quantum]]
  /\ lastRequestAge' = 1
  /\ lastCleared' = Null
  /\ Quiet
  /\ UNCHANGED <<options, state, abortController, currentRequestId, aborted,
                 sessions, inflight, lastTrigger, lastFetch, lastEvent>>

Next ==
  \/ TypeChar
  \/ MoveCursor
  \/ ArrowKey
  \/ EnterKey
  \/ AcceptKey
  \/ RejectKey
  \/ FireDebounce
  \/ FireLineChange
  \/ FireEnter
  \/ ResolvePrompt
  \/ RejectPrompt
  \/ Tick

Spec == Init /\ [][Next]_vars

\* destroy() of a plugin instance of the extension.  abortController and
\* currentRequestId are variables of createAutocompletePlugin's closure, one
\* pair for all the plugin instances that the extension value creates (the
\* instance of another view that shares the extension, or the earlier
\* instance of this view); the view of the model and its timers live on.
\* The insertion variant only aborts: abortController?.abort().
Destroy ==
  /\ aborted' = IF abortController # 0
                THEN aborted \cup {abortController} ELSE aborted
  /\ abortController' =
       IF options.variant = "replacement" THEN 0 ELSE abortController
  /\ currentRequestId' =
       IF options.variant = "replacement" THEN 0 ELSE currentRequestId
  /\ lastEvent' = "destroy"
  /\ SameWorld
  /\ Quiet
  /\ UNCHANGED <<options, lastRequestAge, sessions, inflight, lastFetch>>

NextWithDestroy ==
  \/ TypeChar
  \/ MoveCursor
  \/ ArrowKey
  \/ EnterKey
  \/ AcceptKey
  \/ RejectKey
  \/ FireDebounce
  \/ FireLineChange
  \/ FireEnter
  \/ ResolvePrompt
  \/ RejectPrompt
  \/ Tick
  \/ Destroy

SpecWithDestroy == Init /\ [][NextWithDestroy]_vars

\* Progress is checked for a typing session on one line: the document starts
\* as one line of text, autocomplete is enabled, and the user types and
\* places the cursor.
LiveDocs == {<<"a">>}

LiveInit ==
  /\ Init
  /\ options.enableAutocomplete
  /\ state.doc \in LiveDocs

LiveNext ==
  \/ TypeChar
  \/ MoveCursor
  \/ FireDebounce
  \/ ResolvePrompt
  \/ RejectPrompt
  \/ Tick

\* the event loop runs every timer callback that is due, and time passes;
\* nothing is assumed of prompt() or of the user
LiveSpec ==
  /\ LiveInit
  /\ [][LiveNext]_vars
  /\ WF_vars(Tick)
  /\ WF_vars(FireDebounce)

\* A session of cursor placements on one line of an enabled editor: every
\* user event is a selection-only transaction, which keeps the store and calls
\* debouncedFetch with the state it leaves.
MovesNext ==
  \/ MoveCursorWithin(MaxMoves)
  \/ FireDebounce
  \/ ResolvePrompt
  \/ RejectPrompt
  \/ Tick

MovesSpec == LiveInit /\ [][MovesNext]_vars

\* The response normalizer on its own: one request of an enabled editor, whose
\* prompt() resolves with any text of fence markers, tags, blanks and letters.
NormalizerNext ==
  \/ MoveCursorWithin(1)
  \/ FireDebounce
  \/ ResolvePromptWith(FencedResponses \cup TaggedResponses)
  \/ Tick

\* editors whose one line is indented, or not
NormalizerDocs == {<<"a">>, <<SP, "a">>}

NormalizerInit ==
  /\ Init
  /\ options.enableAutocomplete
  /\ state.doc \in NormalizerDocs

NormalizerSpec == NormalizerInit /\ [][NormalizerNext]_vars

\* The key policy: typing and cursor placements, the timers and the requests,
\* and key presses that reach the plugin's keydown handler only.
KeysNext ==
  \/ TypeChar
  \/ MoveCursor
  \/ KeydownOnly
  \/ FireDebounce
  \/ FireLineChange
  \/ FireEnter
  \/ ResolvePrompt
  \/ Tick

KeysSpec == Init /\ [][KeysNext]_vars

\* Cursor placements on any line and the accept key, with the timers and the
\* requests they start: the accept key can be pressed while the deferred clear
\* of a line change is pending.
RaceInit == Init /\ options.enableAutocomplete

RaceNext ==
  \/ MoveCursorWithin(MaxMoves)
  \/ AcceptKeyWithin(MaxMoves)
  \/ FireDebounce
  \/ FireLineChange
  \/ ResolvePrompt
  \/ Tick

RaceSpec == RaceInit /\ [][RaceNext]_vars

\* A second view built with the same extension value: its plugin instance
\* shares abortController and currentRequestId, the variables of
\* createAutocompletePlugin's closure, with the instance of the view of the
\* model, and has a lastRequestTimestamp, timers and requests of its own, of
\* which only the controllers (counted in sessions) are kept.
\* The debounced operation of the other view begins a session.
OtherViewFetch ==
  /\ sessions < MaxMoves
  /\ aborted' = IF abortController # 0
                THEN aborted \cup {abortController} ELSE aborted
  /\ abortController' = NewController(sessions + 1)
  /\ currentRequestId' = currentRequestId + 1
  /\ sessions' = sessions + 1
  /\ SameWorld
  /\ Quiet
  /\ UNCHANGED <<options, lastRequestAge, inflight, lastFetch, lastEvent>>

\* destroy() of the other view's plugin instance
OtherViewDestroy ==
  /\ aborted' = IF abortController # 0
                THEN aborted \cup {abortController} ELSE aborted
  /\ abortController' =
       IF options.variant = "replacement" THEN 0 ELSE abortController
  /\ currentRequestId' =
       IF options.variant = "replacement" THEN 0 ELSE currentRequestId
  /\ SameWorld
  /\ Quiet
  /\ UNCHANGED <<options, lastRequestAge, sessions, inflight, lastFetch,
                 lastEvent>>

TwoViewsNext ==
  \/ TypeChar
  \/ MoveCursor
  \/ FireDebounce
  \/ FireLineChange
  \/ ResolvePrompt
  \/ RejectPrompt
  \/ Tick
  \/ OtherViewFetch
  \/ OtherViewDestroy

TwoViewsSpec == Init /\ [][TwoViewsNext]_vars

\* --------------------------------------------------------------- properties
\* the step settles the request of the run f and stores its response, with
\* no deferred clear of a line change left to run
Stores(f) ==
  /\ f \in inflight
  /\ LineChangeTimers = {}
  /\ lastDone'.sid = f.sid
  /\ lastDone'.wrote

LineNumber(st) == LineAt(st.doc, st.head).number

DebounceTimers == {i \in 1..Len(timers) : timers[i].kind = "debounce"}

\* C1: a request that settles after a later session has begun never has its
\* response written to the suggestion store, whether or not the later
\* session's request has already resolved and although prompt() ignores the
\* abort signal (single view, plugin not destroyed).
NoStaleApplication == lastDone.wrote => ~lastDone.stale

\* C1 witness: a request has just resolved after the next session had begun
\* and after the next session's request had resolved (the store holds that
\* response), and nothing was stored for it.
StaleResolvedAfterNext ==
  /\ lastDone.status = "resolved"
  /\ lastDone.stale
  /\ ~lastDone.wrote
  /\ state.suggestion # Null
  /\ state.origin = lastDone.sid + 1

\* C2 (as claimed, checked on the replacement variant): a response is stored
\* only if the document has not been edited since the context snapshot of
\* its request was captured.
StoredOnlyIfUnedited ==
  [][\A f \in inflight :
       (options.variant = "replacement" /\ Stores(f))
         => f.state.ver = state.ver]_vars

StoredOnlyOnCapturedLine ==
  [][\A f \in inflight :
       (options.variant = "replacement" /\ Stores(f)
          /\ f.state.ver = state.ver)
         => LineNumber(f.state) = LineNumber(state)]_vars

\* C5: latest-wins debounce.  At most one invocation of the debounced
\* operation is pending, it is the one of the last trigger and holds the
\* state passed with that trigger; the operation runs at most once per burst,
\* and a run uses the state passed with the last trigger.
LatestWinsDebounce ==
  /\ [](/\ Cardinality(DebounceTimers) <= 1
        /\ lastTrigger.runs <= 1
        /\ \A i \in DebounceTimers :
             /\ lastTrigger.runs = 0
             /\ timers[i].trig = lastTrigger.count
             /\ timers[i].state = lastTrigger.state
        /\ (DebounceTimers = {} /\ lastTrigger.count > 0)
             => lastTrigger.runs = 1)
  /\ [][sessions' # sessions =>
          /\ lastTrigger.runs = 0
          /\ lastTrigger'.runs = 1
          /\ lastFetch'.snapVer = lastTrigger.state.ver
          /\ \A f \in inflight' :
               f.sid = sessions' => f.state = lastTrigger.state]_vars

\* C5 witness: a burst of two triggers within the delay led to one run only,
\* which called prompt().
BurstRanOnce ==
  /\ options.autocompleteDebounceTime > 0
  /\ lastTrigger.count = 2
  /\ lastTrigger.runs = 1
  /\ sessions = 1
  /\ lastFetch.called

\* C6: debounce threshold.  With debounce delay D, a pending invocation has
\* waited less than D since the last trigger unless it is due, it is never
\* overdue, and the run of the operation (hence the call of prompt()) comes
\* exactly D after the last trigger, once.
DebounceThreshold ==
  /\ \A i \in DebounceTimers :
       /\ timers[i].left >= 0
       /\ timers[i].left + timers[i].waited = options.autocompleteDebounceTime
  /\ lastTrigger.runs >= 1 =>
       lastTrigger.waited = options.autocompleteDebounceTime
  /\ lastTrigger.runs <= 1

\* C6 witness: with a positive delay D, prompt() was called by a run that
\* came D after its trigger.
CalledAfterDelay ==
  /\ options.autocompleteDebounceTime > 0
  /\ lastTrigger.runs = 1
  /\ lastTrigger.waited = options.autocompleteDebounceTime
  /\ lastFetch.called
  /\ inflight # {}

\* C7 (as claimed): prompt() is not called for a cursor whose prefix (the
\* text from the start of its line to the cursor) is empty or blank, whatever
\* follows the cursor on the line.
WhitespacePrefixGuard ==
  \A f \in inflight : Trim(Prefix(f.state)) # <<>>

RearmCallsPrompt ==
  (/\ options.enableAutocomplete
   /\ options.variant = "replacement"
   /\ lastEvent = "Enter"
   /\ LineNumber(state) > 1
   /\ Trim(CurrentFullLine(state)) = <<>>
   /\ Trim(DocLine(state.doc, LineNumber(state) - 1).text) # <<>>
   /\ timers = <<>>)
  => (lastFetch.called /\ lastFetch.snapVer = state.ver)

\* C10: with enableAutocomplete false the debounced operation never runs, so
\* prompt() is never called, and the store never holds a suggestion.
DisabledNeverFetches ==
  ~options.enableAutocomplete =>
    /\ sessions = 0
    /\ inflight = {}
    /\ DebounceTimers = {}
    /\ state.suggestion = Null

\* C10 witness: autocomplete is disabled, the document has been edited, Enter
\* has put the cursor on a new line below a line with text and the timers
\* have run.
DisabledAfterEvents ==
  /\ ~options.enableAutocomplete
  /\ state.ver > 0
  /\ lastEvent = "Enter"
  /\ LineNumber(state) > 1
  /\ Trim(DocLine(state.doc, LineNumber(state) - 1).text) # <<>>
  /\ timers = <<>>

\* C11: line-replacement accept.  In the replacement variant the accept key,
\* pressed while the store holds a suggestion S, replaces exactly the span
\* from the start to the end of the cursor's line with S: the text before the
\* line and the text after it (every other line and the line breaks between
\* them) are kept, and the store is empty afterwards.
AcceptReplacesCurrentLine ==
  [][(/\ AcceptKey
      /\ options.variant = "replacement"
      /\ state.suggestion # Null
      /\ state.suggestion # <<>>)
     => LET line == LineAt(state.doc, state.head)
        IN /\ state'.doc = SubSeq(state.doc, 1, line.from)
                             \o state.suggestion
                             \o SubSeq(state.doc, line.to + 1, Len(state.doc))
           /\ state'.suggestion = Null]_vars

\* C11 witness: in the replacement variant a suggestion with a line break has
\* just been accepted on one line of a document of several lines, and the
\* line it replaced had text after the cursor.
AcceptedOnOneLineOfSeveral ==
  /\ options.variant = "replacement"
  /\ lastEvent = "accepted"
  /\ notified # <<>>
  /\ Includes(notified[1][2], NL)
  /\ DocLines(state.doc) > DocLines(notified[1][2])
  /\ state.head < LineAt(state.doc, state.head).to

\* C12: insertion-mode accept.  In the insertion variant the accept key,
\* pressed while the store holds a suggestion S, inserts S at the cursor
\* offset: the text before the cursor and the text after it are kept, and the
\* store is empty afterwards.
AcceptInsertsAtCursor ==
  [][(/\ AcceptKey
      /\ options.variant = "insertion"
      /\ state.suggestion # Null
      /\ state.suggestion # <<>>)
     => /\ state'.doc = SubSeq(state.doc, 1, state.head)
                          \o state.suggestion
                          \o SubSeq(state.doc, state.head + 1, Len(state.doc))
        /\ state'.suggestion = Null]_vars

\* C12 witness: in the insertion variant a suggestion has just been accepted
\* at a cursor with text before it and text after it on its line.
AcceptedInsideLine ==
  /\ options.variant = "insertion"
  /\ lastEvent = "accepted"
  /\ notified # <<>>
  /\ state.head > LineAt(state.doc, state.head).from
  /\ state.head + Len(notified[1][2]) < LineAt(state.doc, state.head).to

\* the text s occurs in doc as a contiguous span
OccursIn(s, doc) ==
  \E i \in 0..(Len(doc) - Len(s)) : SubSeq(doc, i + 1, i + Len(s)) = s

\* C13: accept is atomic.  The accept key, pressed while the store holds a
\* suggestion S, takes the view in one step from a state whose store holds S
\* to a state that is exactly one document change later, whose document
\* holds the whole of S and whose store is empty: no state has the text
\* applied with S still stored, or the store cleared by accept with the
\* document unchanged or holding part of S only.
AcceptIsOneTransaction ==
  [][(/\ AcceptKey
      /\ state.suggestion # Null
      /\ state.suggestion # <<>>)
     => /\ state'.ver = state.ver + 1
        /\ OccursIn(state.suggestion, state'.doc)
        /\ Len(state'.doc) - Len(state.suggestion) \in
             {Len(state.doc), Len(state.doc) - Len(CurrentFullLine(state))}
        /\ state'.suggestion = Null]_vars

\* C13 witness: the first change of the document was an accept that has just
\* applied a suggestion of several characters, and the store is empty.
AcceptedAsFirstChange ==
  /\ lastEvent = "accepted"
  /\ notified # <<>>
  /\ Len(notified[1][2]) > 1
  /\ OccursIn(notified[1][2], state.doc)
  /\ state.ver = 1
  /\ state.suggestion = Null

\* C14: idempotent accept/reject.  The accept key or the reject key, pressed
\* while the store holds no suggestion (null or the empty string), returns
\* false, dispatches nothing (the view's state and its timers are as before)
\* and calls no callback; so the key pressed again right after an accept or a
\* reject does nothing and notifies no one.
NoSuggestionKeyIsNoOp ==
  [][((AcceptKey \/ RejectKey)
        /\ (state.suggestion = Null \/ state.suggestion = <<>>))
     => /\ lastEvent' \in {"acceptIgnored", "rejectIgnored", "ignoredAgain"}
        /\ state' = state
        /\ timers' = timers
        /\ notified' = <<>>]_vars

\* C14 witness: an accept or a reject went through, and an accept or reject
\* key pressed right after it has just returned false.
SecondKeyIgnored ==
  /\ lastEvent = "ignoredAgain"
  /\ notified = <<>>
  /\ state.suggestion = Null

\* C15: reject is a pure state clear.  The reject key, pressed while the
\* store holds a suggestion, leaves the document (its text and its number
\* of changes) and the cursor as they were and empties the store.
RejectOnlyClearsStore ==
  [][(/\ RejectKey
      /\ state.suggestion # Null
      /\ state.suggestion # <<>>)
     => /\ state'.doc = state.doc
        /\ state'.ver = state.ver
        /\ state'.head = state.head
        /\ state'.suggestion = Null]_vars

\* C15 witness: a suggestion has just been rejected in a document that has
\* text and was never changed, with the cursor inside the text.
RejectedInUneditedDocument ==
  /\ lastEvent = "rejected"
  /\ notified # <<>>
  /\ state.suggestion = Null
  /\ state.ver = 0
  /\ state.head > 0
  /\ ~OccursIn(notified[1][2], state.doc)

\* C16: the accept key, pressed while the store holds S, calls
\* onAcceptSuggestion once, with the S the store held before the accept, and
\* calls nothing else; the reject key, pressed while the store holds S, calls
\* onRejectSuggestion once with S, and calls nothing else.
KeyNotifiesOnceWithPreClearText ==
  [][/\ (AcceptKey /\ state.suggestion # Null /\ state.suggestion # <<>>)
          => notified' = <<<<"onAcceptSuggestion", state.suggestion>>>>
     /\ (RejectKey /\ state.suggestion # Null /\ state.suggestion # <<>>)
          => notified' = <<<<"onRejectSuggestion", state.suggestion>>>>]_vars

\* C16 witness: onAcceptSuggestion has just been called, once, with a text the
\* store no longer holds.
AcceptNotifiedAfterClear ==
  /\ Len(notified) = 1
  /\ notified[1][1] = "onAcceptSuggestion"
  /\ notified[1][2] \notin {Null, <<>>}
  /\ state.suggestion = Null

\* the accept and reject callbacks among calls
KeyCallbacks(calls) ==
  {i \in 1..Len(calls) :
     calls[i][1] \in {"onAcceptSuggestion", "onRejectSuggestion"}}

\* C17 (as claimed): whenever a step takes a suggestion out of the store, by
\* an accept, a reject or an implicit invalidation (document edit, cursor
\* leaving the line, arrow key, replacement by a newer suggestion), the step
\* calls exactly one of onAcceptSuggestion / onRejectSuggestion, with that
\* suggestion.
EveryClearedSuggestionNotified ==
  lastCleared # Null =>
    /\ Len(notified) = 1
    /\ KeyCallbacks(notified) = {1}
    /\ notified[1][2] = lastCleared

\* C17 (amended): an accept or reject key that takes a suggestion out of the
\* store calls exactly one of onAcceptSuggestion / onRejectSuggestion, once,
\* with that suggestion; every other step, the implicit invalidations
\* included, calls neither.
OnlyKeysNotify ==
  [][/\ ((AcceptKey \/ RejectKey) /\ lastCleared' # Null)
          => /\ Len(notified') = 1
             /\ KeyCallbacks(notified') = {1}
             /\ notified'[1][2] = lastCleared'
     /\ ~(AcceptKey \/ RejectKey) => KeyCallbacks(notified') = {}]_vars

\* C17 witness: a step other than the accept and reject keys has just taken a
\* suggestion out of the store, and nothing was called.
ClearedWithoutNotification ==
  /\ lastCleared # Null
  /\ notified = <<>>

\* C18 (as claimed): whenever prompt() rejects with a value other than the
\* cancellation error, an Error or not, for a request that is still current
\* or not, onError is called once with that value and nothing else is called.
EveryRejectionReported ==
  (lastDone.status = "rejected" /\ lastDone.error # "AbortError")
    => notified = <<<<"onError", lastDone.error>>>>

\* C19: cancellation silence.  A step that aborts the controller of the
\* request in flight calls no callback, and a rejection of prompt() with the
\* cancellation error AbortError calls no callback either, onError included.
CancellationIsSilent ==
  /\ [](lastDone.error = "AbortError" => notified = <<>>)
  /\ [][aborted' # aborted => notified' = <<>>]_vars

\* C19 witness: a request that a later session superseded, whose controller
\* was aborted, has just rejected with AbortError, and nothing was called.
SupersededRejectedWithAbortError ==
  /\ lastDone.status = "rejected"
  /\ lastDone.error = "AbortError"
  /\ lastDone.sid \in aborted
  /\ lastDone.stale
  /\ notified = <<>>

\* C20: a rejection of prompt() with a value other than the cancellation
\* error leaves the view's state as it was: the store keeps what it held
\* (nothing is cleared, nothing is set) and the document is unchanged.
RejectionLeavesStateAlone ==
  [][(lastDone'.status = "rejected" /\ lastDone'.error # "AbortError")
     => state' = state]_vars

\* C20 witness: prompt() has just rejected with an Error while the store held
\* a suggestion, which it still holds.
RejectedWhileSuggesting ==
  /\ lastDone.status = "rejected"
  /\ lastDone.error = "Error"
  /\ lastCleared = Null
  /\ state.suggestion \notin {Null, <<>>}

\* C21: an earlier request never blocks later ones.  Whatever is in flight
\* and whatever failed before: typing with autocomplete enabled sets the
\* debounce timer for the new state; a pending debounce timer leads to a run
\* of the debounced operation; a run on a non-empty context calls prompt();
\* and a response that resolves before any later session has begun is stored
\* unless it equals the suggestion of the state the run captured.
EarlierRequestNeverBlocks ==
  /\ [][(TypeChar /\ Enabled(options))
          => \E i \in 1..Len(timers') :
               /\ timers'[i].kind = "debounce"
               /\ timers'[i].state = state'
               /\ timers'[i].left = DebounceDelay(options)]_vars
  /\ (DebounceTimers # {}) ~> (lastTrigger.runs >= 1)
  /\ [][(FireDebounce /\ ~EmptyContext(timers[FirstDue].state))
          => /\ lastFetch'.called
             /\ \E f \in inflight' \ inflight : f.sid = sessions']_vars
  /\ [][\A f \in inflight :
          (/\ ResolvePrompt
           /\ lastDone'.sid = f.sid
           /\ f.sid = sessions
           /\ ~lastDone'.wrote)
          => \E raw \in RawResponses :
               Normalize(options.variant, raw, CurrentFullLine(f.state))
                 = f.state.suggestion]_vars

\* C21 witness: the response of a later session has just been stored while
\* the request of an earlier session is still in flight.
StoredWhileEarlierHangs ==
  /\ lastDone.status = "resolved"
  /\ lastDone.wrote
  /\ state.suggestion \notin {Null, <<>>}
  /\ \E f \in inflight : f.sid < lastDone.sid

SessionIdsMonotonic ==
  [][sessions' = sessions + 1
       => lastFetch'.requestId = lastFetch.requestId + 1]_vars

\* the sessions whose controller's signal is not aborted
LiveSignals == (1..sessions) \ aborted

\* C24 (as claimed): a run of the debounced operation aborts the controller
\* of the session before it; the signal passed to prompt() is the one of the
\* run's own new controller; at most one of the signals issued so far is not
\* aborted; and a request whose session's signal is aborted never passes the
\* currency check again.
OneLiveSignal ==
  /\ [][FireDebounce => (abortController # 0 => abortController \in aborted')]_vars
  /\ [](\A f \in inflight : f.signal = f.sid)
  /\ [](Cardinality(LiveSignals) <= 1)
  /\ [](\A f \in inflight :
          f.sid \in aborted => ~(abortController # 0 /\ IsCurrent(f)))

\* C27 (as claimed, checked on documents that were never edited): a response
\* whose normalized text equals the suggestion the store holds when the
\* response is handled causes no store write: nothing is dispatched and the
\* view's state is as before.
IdenticalResponseNotWritten ==
  [][(/\ lastDone'.status = "resolved"
      /\ state.ver = 0
      /\ state.suggestion # Null
      /\ lastDone'.text = state.suggestion)
     => /\ ~lastDone'.wrote
        /\ state' = state]_vars

\* C28 (as claimed): a response that normalizes to the empty string is not
\* stored: nothing is dispatched for it and the view's state, its store
\* included, is as before.
EmptyResponseNotWritten ==
  [][(lastDone'.status = "resolved" /\ lastDone'.text = <<>>)
     => /\ ~lastDone'.wrote
        /\ state' = state]_vars


\* C26 (as claimed): the transaction of an effective accept does not call
\* debouncedFetch, and while the accept is the last user event no debounced
\* operation calls prompt().
AcceptSchedulesNoFetch ==
  /\ [][(AcceptKey /\ lastEvent' = "accepted")
        => /\ lastTrigger'.count = lastTrigger.count
           /\ DebounceTimers' \subseteq DebounceTimers]_vars
  /\ [][(FireDebounce /\ lastEvent = "accepted") => ~lastFetch'.called]_vars


\* C25 (as claimed): when prompt() of the session of the last trigger resolves,
\* no user event having followed that trigger, with a text that normalizes to
\* a non-empty string different from the stored suggestion, the store holds
\* exactly that text (the resolving step is the only one that can store it).
HappyPathStores ==
  [][(/\ lastDone'.status = "resolved"
      /\ lastDone'.sid = sessions
      /\ DebounceTimers = {}
      /\ lastDone'.text # <<>>
      /\ lastDone'.text # state.suggestion)
     => state'.suggestion = lastDone'.text]_vars


\* the raw text s opens with a fence marker line
OpensWithFenceLine(s) == s # <<>> /\ s[1] = FENCE /\ Includes(s, NL)

\* the raw text s closes with a fence marker line at i: a marker at the start
\* of a line after the opening line, nothing but blanks and line breaks after
\* it, and no other marker between the two
ClosesWithFenceLineAt(s, i) ==
  /\ i \in 3..Len(s)
  /\ s[i] = FENCE /\ s[i - 1] = NL
  /\ \A j \in (i + 1)..Len(s) : s[j] \in Whitespace
  /\ \A j \in 2..(i - 1) : s[j] # FENCE

\* C29 (as claimed): a response that opens with a fence marker line and
\* closes with one, followed by blanks or line breaks or not, is normalized to
\* a text that holds no fence marker.
FenceLinesStripped ==
  (/\ lastDone.status = "resolved"
   /\ OpensWithFenceLine(lastDone.raw)
   /\ \E i \in 1..Len(lastDone.raw) : ClosesWithFenceLineAt(lastDone.raw, i))
  => ~Includes(lastDone.text, FENCE)


\* the positions of the tag t in the text s
TagPositions(s, t) == {i \in 1..Len(s) : s[i] = t}

\* C30 (as claimed): a response with an opening tag and a closing tag after it
\* is normalized, in the replacement variant, to the trimmed content between
\* its first opening tag and its last closing tag.
TagContentExtracted ==
  LET raw == lastDone.raw
      opens == TagPositions(raw, OPENTAG)
      closes == TagPositions(raw, CLOSETAG)
  IN (/\ lastDone.status = "resolved"
      /\ options.variant = "replacement"
      /\ opens # {} /\ closes # {}
      /\ Min(opens) < Max(closes))
     => lastDone.text = Trim(SubSeq(raw, Min(opens) + 1, Max(closes) - 1))


\* current lines the response is re-indented for: with and without indentation
CurrentLines == {<<"a">>, <<SP, "a">>}

\* C31 (as claimed): for the raw response just handled and every current
\* line, the whole clean-up and each of its steps (fence strip, tag
\* extraction, trim, re-indent) gives its own output back when applied to it.
NormalizationIdempotent ==
  lastDone.status = "resolved" =>
    \A line \in CurrentLines :
      LET raw == lastDone.raw
          fence(s) == StripCloseFence(StripOpenFence(s))
          cleaned == Normalize(options.variant, raw, line)
      IN /\ Normalize(options.variant, cleaned, line) = cleaned
         /\ fence(fence(raw)) = fence(raw)
         /\ Trim(Trim(raw)) = Trim(raw)
         /\ options.variant = "replacement" =>
              /\ ExtractCode(ExtractCode(raw)) = ExtractCode(raw)
              /\ Reindent(Reindent(raw, line), line) = Reindent(raw, line)


\* the normalized response before the re-indentation
BeforeReindent(raw) == ExtractCode(Trim(StripCloseFence(StripOpenFence(raw))))

\* the indentation of the line being replaced
CurrentLineIndent == LeadingWhitespace(CurrentFullLine(state))

\* C32: in the replacement variant a normalized response of several lines
\* has as many lines as before the re-indentation, its first line as it was
\* and every later line prefixed with the leading whitespace of the current
\* line; a response of one line is as it was.
ReindentPrefixesLaterLines ==
  (lastDone.status = "resolved" /\ options.variant = "replacement") =>
    LET base == BeforeReindent(lastDone.raw)
        text == lastDone.text
    IN /\ DocLines(text) = DocLines(base)
       /\ DocLine(text, 1).text = DocLine(base, 1).text
       /\ \A k \in 2..DocLines(base) :
            DocLine(text, k).text = CurrentLineIndent \o DocLine(base, k).text
       /\ DocLines(base) = 1 => text = base

\* C32 witness: a response of several lines was re-indented for an indented
\* current line
ReindentedForIndentedLine ==
  /\ lastDone.status = "resolved"
  /\ options.variant = "replacement"
  /\ CurrentLineIndent # <<>>
  /\ DocLines(lastDone.text) > 1
  /\ lastDone.text # BeforeReindent(lastDone.raw)


\* C33 (as claimed): the extended context passed to prompt() by the insertion
\* variant is the text of the min(200, n - 1) lines before the cursor's line
\* n followed by the prefix of line n: the document from the start of the
\* first of these lines to the cursor, and nothing else.
ContextIsWindowThenPrefix ==
  options.variant = "insertion" =>
    \A f \in inflight :
      LET st == f.state
          n == LineAt(st.doc, st.head).number
          first == n - Min({ContextWindow, n - 1})
      IN CodeBefore(st) = SliceString(st.doc, DocLine(st.doc, first).from, st.head)


AcceptOnCapturedLine ==
  [][(/\ AcceptKeyWithin(MaxMoves)
      /\ ~NoSuggestion(state)
      /\ state.origin = sessions
      /\ state.ver = lastFetch.snapVer
      /\ LineChangeTimers # {}
      /\ lastDone.status = "none")
     => LineAt(state.doc, state.head).number = lastFetch.line]_vars


\* the plugin has been destroyed and no session has begun since: the
\* controller of the latest session is released (replacement variant) or
\* aborted without a successor (insertion variant)
Destroyed ==
  /\ sessions > 0
  /\ abortController = 0 \/ abortController \in aborted

\* C36 (as claimed): when prompt() of a request that was in flight at destroy
\* time resolves after the destroy, onError is not called.
NoErrorAfterDestroy ==
  [][(ResolvePrompt /\ Destroyed)
     => \A i \in 1..Len(notified') : notified'[i][1] # "onError"]_vars


\* C37 (as claimed): once the plugin is destroyed, and with no user event
\* since, a debounce timer that was pending does not call prompt(), and no
\* step changes the suggestion store.
QuietAfterDestroy ==
  /\ [][(FireDebounce /\ lastEvent = "destroy") => ~lastFetch'.called]_vars
  /\ [][lastEvent = "destroy" => state'.suggestion = state.suggestion]_vars


\* C38 (as claimed): a session begun, or a destroy performed, in the other
\* view aborts the signal of no request in flight in this view and changes
\* for none of them whether it passes the currency check.
ViewsIndependent ==
  [][(OtherViewFetch \/ OtherViewDestroy)
     => \A f \in inflight :
          /\ f.signal \in aborted' <=> f.signal \in aborted
          /\ (abortController' # 0 /\ IsCurrent(f)')
               <=> (abortController # 0 /\ IsCurrent(f))]_vars


\* C39 (as claimed): a run of the debounced operation that is skipped for
\* its empty context aborts the controller in place and advances the request
\* counter, and of the requests that were in flight at that run none stores
\* its response afterwards.
SkippedFetchSupersedes ==
  /\ [][(FireDebounce /\ ~lastFetch'.called)
        => /\ currentRequestId' = currentRequestId + 1
           /\ abortController # 0 => abortController \in aborted']_vars
  /\ [][(ResolvePrompt /\ ~lastFetch.called /\ lastFetch.requestId > 0)
        => ~lastDone'.wrote]_vars

=============================================================================
